---- MODULE Spec2Model ----
(***************************************************************************)
(* Capacitated vehicle routing: Christofides tour construction, first-fit  *)
(* route partitioning, routing-plan operators and the iterated local       *)
(* search driver of the ails library (src/src/ails).                       *)
(*                                                                         *)
(* Client ids are 0..n-1 with 0 the depot.  Distances are the Euclidean    *)
(* distances of the code in fixed point (two decimal digits, rounded up,   *)
(* which keeps the triangle inequality); a cost is a sum of distances.     *)
(***************************************************************************)
EXTENDS Integers, Sequences, FiniteSets, TLC

VARIABLES
    instance,       \* VehicleRoutingProblem with its graph (immutable after load)
    timeout,        \* the Option<Duration> handed to solve, in seconds
    pc,             \* position of the solve pipeline / of the operator harness
    fault,          \* "" or the place where the program panicked
    included_clients, tree, pq,           \* mst locals
    matching,                             \* result of the external matcher
    vertex_to_edges, stack, eulerian_tour,\* find_eulerian_tour locals
    tour,                                 \* result of chirstofides
    tour_without_depot, rotation, current_partition, best_partition, \* partition_tour locals
    initial_plan, reference_solution, optimal_solution, \* AILS::run locals
    elapsed, iterations, values,          \* clock of run, loop count, costs of reference so far
    solution,                             \* Option of the VehicleRoutingSolution returned by solve
    plan, call, outcome                   \* operator harness: plan under test, call made, its result

vars == << instance, timeout, pc, fault, included_clients, tree, pq, matching,
           vertex_to_edges, stack, eulerian_tour, tour, tour_without_depot,
           rotation, current_partition, best_partition, initial_plan,
           reference_solution,
           optimal_solution, elapsed, iterations, values, solution,
           plan, call, outcome >>

tourVars == << included_clients, tree, pq, matching, vertex_to_edges, stack,
               eulerian_tour, tour >>
partVars == << tour_without_depot, rotation, current_partition, best_partition >>
runVars  == << initial_plan, reference_solution, optimal_solution, elapsed,
               iterations, values >>
opVars   == << plan, call, outcome >>

----------------------------------------------------------------------------
(* Bounds of the model *)

MaxIter == 2          \* iterations of AILS::run explored
MaxPlanLen == 4       \* stored ids in a plan handed to an operator called on its own
MaxClients == 5       \* clients (depot included) of an instance handed to solve
MaxTourClients == 4   \* clients (depot included) of a graph handed to chirstofides
MaxSize == 2          \* size handed to remove_sequential / remove_concentric
MaxListLen == 4       \* edges of a list handed to find_eulerian_tour called on its own

\* Option<T>: None is the empty sequence, Some(x) the one-element sequence
None == << >>
Some(x) == << x >>

----------------------------------------------------------------------------
(* Generic helpers *)

Range(s) == { s[i] : i \in 1..Len(s) }

RECURSIVE SumSeq(_)
SumSeq(s) == IF s = << >> THEN 0 ELSE Head(s) + SumSeq(Tail(s))

RECURSIVE Flatten(_)
Flatten(ss) == IF ss = << >> THEN << >> ELSE Head(ss) \o Flatten(Tail(ss))

RECURSIVE ISqrtBetween(_, _, _)
ISqrtBetween(x, lo, hi) ==
    IF lo = hi THEN lo
    ELSE LET mid == (lo + hi + 1) \div 2
         IN  IF mid * mid <= x THEN ISqrtBetween(x, mid, hi)
             ELSE ISqrtBetween(x, lo, mid - 1)

\* f64::sqrt in fixed point: 100 * sqrt(d2) rounded up (exact on perfect squares)
Sqrt(d2) ==
    LET below == ISqrtBetween(d2 * 10000, 0, 100 * (d2 + 1))
    IN  IF below * below = d2 * 10000 THEN below ELSE below + 1

\* Vec::insert(index, element), index 0-based and index <= len
VecInsert(s, index, e) == SubSeq(s, 1, index) \o << e >> \o SubSeq(s, index + 1, Len(s))

\* Vec::remove(index), index 0-based and index < len
VecRemove(s, index) == SubSeq(s, 1, index) \o SubSeq(s, index + 2, Len(s))

\* Iterator::position(..).unwrap() where e is in s: 0-based index of its first occurrence
Position(s, e) ==
    (CHOOSE i \in 1..Len(s) : s[i] = e /\ \A j \in 1..(i - 1) : s[j] # e) - 1

\* slice::rotate_left(1)
RotateLeft1(s) == IF s = << >> THEN s ELSE Tail(s) \o << Head(s) >>

----------------------------------------------------------------------------
(* Client / instance model and the distance graph *)

\* Client::new
Client(id, x, y, demand) == [id |-> id, x |-> x, y |-> y, demand |-> demand]

\* VehicleRoutingGraph::new: the dense distance matrix
DistanceMatrix(clients) ==
    [a \in 0..(Len(clients) - 1) |->
        [b \in 0..(Len(clients) - 1) |->
            Sqrt((clients[a + 1].x - clients[b + 1].x) * (clients[a + 1].x - clients[b + 1].x)
               + (clients[a + 1].y - clients[b + 1].y) * (clients[a + 1].y - clients[b + 1].y))]]

\* VehicleRoutingProblem::from_file on a well-formed file: the header carries
\* the number of data lines, and number_of_customers leaves the depot out.
Problem(points, demands, vehicles, capacity) ==
    LET clients == [i \in 1..Len(points) |->
                       Client(i - 1, points[i][1], points[i][2], demands[i])]
    IN  [ number_of_customers |-> Len(points) - 1,
          number_of_vehicles  |-> vehicles,
          vehicle_capacity    |-> capacity,
          clients             |-> clients,
          distance_matrix     |-> DistanceMatrix(clients) ]

NumClients == Len(instance.clients)
ClientIds == 0..(NumClients - 1)
Customers == 1..(NumClients - 1)

\* VehicleRoutingGraph::distance
distance(client1, client2) == instance.distance_matrix[client1][client2]

\* VehicleRoutingProblem::demand
demand(client) == instance.clients[client + 1].demand

RouteDemand(route) == SumSeq([i \in 1..Len(route) |-> demand(route[i])])

----------------------------------------------------------------------------
(* RoutingPlan: a sequence of routes, each a sequence of client ids *)

\* One route's share of value without the leg back to the depot
RouteValueOneWay(route) ==
    SumSeq([i \in 1..Len(route) |->
               distance(route[i], IF i = 1 THEN 0 ELSE route[i - 1])])

\* One route's share of RoutingPlan::value (the route is not empty)
RouteValue(route) ==
    SumSeq([i \in 1..Len(route) |->
               distance(route[i], IF i = 1 THEN 0 ELSE route[i - 1])])
    + distance(route[Len(route)], 0)

\* RoutingPlan::value unwraps route.last(): it panics on an empty route
ValuePanics(routes) == \E r \in 1..Len(routes) : routes[r] = << >>

\* RoutingPlan::value
value(routes) == SumSeq([r \in 1..Len(routes) |->
                            IF routes[r] = << >> THEN 0 ELSE RouteValue(routes[r])])

\* feasible without its coverage check
feasible_without_coverage(routes) ==
    IF Len(routes) > instance.number_of_vehicles THEN "TooManyVehicles"
    ELSE IF \E r \in 1..Len(routes) : RouteDemand(routes[r]) > instance.vehicle_capacity
         THEN "ExceedsVehicleCapacity"
    ELSE "Ok"

\* RoutingPlan::feasible
feasible(routes) ==
    IF Len(routes) > instance.number_of_vehicles THEN "TooManyVehicles"
    ELSE IF Cardinality(Range(Flatten(routes))) # instance.number_of_customers
         THEN "InvalidTour"
    ELSE IF \E r \in 1..Len(routes) : RouteDemand(routes[r]) > instance.vehicle_capacity
         THEN "ExceedsVehicleCapacity"
    ELSE "Ok"

\* Insertion cost of client before 0-based position i of route (depot at both ends)
InsertionCost(route, client, i) ==
    LET prev_client == IF i = 0 THEN 0 ELSE route[i]
        next_client == IF i = Len(route) THEN 0 ELSE route[i + 1]
    IN  distance(client, prev_client) + distance(client, next_client)
        - distance(prev_client, next_client)

\* lowest_cost_position without its scan: the head of the route is returned
head_position(routes, client, route_idx) ==
    [index |-> 0, cost |-> InsertionCost(routes[route_idx], client, 0)]

\* RoutingPlan::lowest_cost_position: the first position of strictly lowest cost
lowest_cost_position(routes, client, route_idx) ==
    LET route == routes[route_idx]
        best  == CHOOSE i \in 0..Len(route) :
                    /\ \A j \in 0..Len(route) :
                          InsertionCost(route, client, i) <= InsertionCost(route, client, j)
                    /\ \A j \in 0..(i - 1) :
                          InsertionCost(route, client, j) > InsertionCost(route, client, i)
    IN  [index |-> best, cost |-> InsertionCost(route, client, best)]

\* routes.iter().position(|route| route.contains(&client)): Option of the 1-based route
FirstRouteOf(routes, client) ==
    IF \E r \in 1..Len(routes) : client \in Range(routes[r])
    THEN Some(CHOOSE r \in 1..Len(routes) :
                 /\ client \in Range(routes[r])
                 /\ \A q \in 1..(r - 1) : client \notin Range(routes[q]))
    ELSE None

\* The scanning loop of inter_swap / intra_swap keeps the last route holding the client
LastRouteOf(routes, client) ==
    IF \E r \in 1..Len(routes) : client \in Range(routes[r])
    THEN Some(CHOOSE r \in 1..Len(routes) :
                 /\ client \in Range(routes[r])
                 /\ \A q \in (r + 1)..Len(routes) : client \notin Range(routes[q]))
    ELSE None

Result(routes, res) == [routes |-> routes, res |-> res]

\* The routes inter_shift may draw: every route but the client's own
InterShiftTargets(routes, client) ==
    { i \in 1..Len(routes) : Some(i) # FirstRouteOf(routes, client) }

\* What IteratorRandom::choose may return over a set of candidates
Choose(candidates) == IF candidates = {} THEN { None } ELSE { Some(c) : c \in candidates }

\* inter_shift without its capacity test
inter_shift_unchecked(routes, client, drawn) ==
    IF FirstRouteOf(routes, client) = None THEN Result(routes, "panic")
    ELSE IF drawn = None THEN Result(routes, "panic")
    ELSE LET random_route == drawn[1]
             best == lowest_cost_position(routes, client, random_route)
         IN  Result([routes EXCEPT ![random_route] = VecInsert(@, best.index, client)],
                    "Unit")

\* RoutingPlan::inter_shift, drawn being the Option that choose returned for the target
inter_shift(routes, client, drawn) ==
    IF FirstRouteOf(routes, client) = None THEN Result(routes, "panic")
    ELSE IF drawn = None THEN Result(routes, "panic")
    ELSE LET random_route == drawn[1]
         IN  IF RouteDemand(routes[random_route]) + demand(client)
                    > instance.vehicle_capacity
             THEN Result(routes, "Unit")
             ELSE LET best == lowest_cost_position(routes, client, random_route)
                  IN  Result([routes EXCEPT
                                 ![random_route] = VecInsert(@, best.index, client)],
                             "Unit")

\* RoutingPlan::inter_swap
inter_swap(routes, client1, client2) ==
    LET found1 == LastRouteOf(routes, client1)
        found2 == LastRouteOf(routes, client2)
    IN  IF found1 = None \/ found2 = None THEN Result(routes, "InvalidTour")
        ELSE IF found1 = found2 THEN Result(routes, "InvalidArguments")
        ELSE LET client1_route == found1[1]
                 client2_route == found2[1]
                 removed == [routes EXCEPT
                                ![client1_route] = VecRemove(@, Position(@, client1)),
                                ![client2_route] = VecRemove(@, Position(@, client2))]
                 best1   == lowest_cost_position(removed, client1, client2_route)
                 first   == [removed EXCEPT
                                ![client2_route] = VecInsert(@, best1.index, client1)]
                 best2   == lowest_cost_position(first, client2, client1_route)
             IN  Result([first EXCEPT ![client1_route] = VecInsert(@, best2.index, client2)],
                        "Ok")

\* RoutingPlan::intra_shift
intra_shift(routes, client) ==
    LET found == FirstRouteOf(routes, client)
    IN  IF found = None THEN Result(routes, "panic")
        ELSE LET route_idx  == found[1]
                 client_idx == Position(routes[route_idx], client)
                 best       == lowest_cost_position(routes, client, route_idx)
                 removed    == VecRemove(routes[route_idx], client_idx)
             IN  IF best.index > Len(removed) THEN Result(routes, "panic")
                 ELSE Result([routes EXCEPT
                                 ![route_idx] = VecInsert(removed, best.index, client)],
                             "Unit")

\* slice::swap(a, b), 0-based
VecSwap(s, a, b) == [s EXCEPT ![a + 1] = s[b + 1], ![b + 1] = s[a + 1]]

\* intra_swap without its argument checks: success is reported whenever both
\* clients are stored
intra_swap_unchecked(routes, client1, client2) ==
    IF LastRouteOf(routes, client1) = None \/ LastRouteOf(routes, client2) = None
    THEN Result(routes, "InvalidTour")
    ELSE Result(routes, "Ok")

\* RoutingPlan::intra_swap
intra_swap(routes, client1, client2) ==
    LET found1 == LastRouteOf(routes, client1)
        found2 == LastRouteOf(routes, client2)
    IN  IF found1 = None \/ found2 = None THEN Result(routes, "InvalidTour")
        ELSE IF found1 # found2 THEN Result(routes, "InvalidArguments")
        ELSE LET client1_route == found1[1]
                 client2_route == found2[1]
                 client1_idx == Position(routes[client1_route], client1)
                 client2_idx == Position(routes[client2_route], client2)
             IN  IF client1_idx = client2_idx THEN Result(routes, "InvalidArguments")
                 ELSE Result([routes EXCEPT
                                 ![client1_route] = VecSwap(@, client1_idx, client2_idx)],
                             "Ok")

----------------------------------------------------------------------------
(* Instances *)

\* The six clients of test_basic_mst / test_eulerian_tour
ScenarioPoints ==
    << <<0, 0>>, <<0, 7>>, <<3, 4>>, <<7, -10>>, <<-4, -6>>, <<-4, 3>> >>

Prefix(n) == SubSeq(ScenarioPoints, 1, n)

\* Instances on which the plan operators are called on their own
PlanInstances ==
    { Problem(Prefix(3), <<0, 4, 6>>, 1, 10),
      Problem(Prefix(3), <<0, 4, 6>>, 2, 10),
      Problem(Prefix(4), <<0, 2, 6, 6>>, 2, 10),
      Problem(Prefix(4), <<0, 4, 4, 4>>, 2, 12) }

SeqsUpTo(ids, maxLen) == UNION { [1..l -> ids] : l \in 0..maxLen }

\* The ways of cutting the id sequence f into k routes
Cuts(f, k) ==
    { c \in [1..(k - 1) -> 0..Len(f)] : \A i \in 1..(k - 2) : c[i] <= c[i + 1] }

SplitAt(f, k, c) ==
    [r \in 1..k |-> SubSeq(f, (IF r = 1 THEN 0 ELSE c[r - 1]) + 1,
                              IF r = k THEN Len(f) ELSE c[r])]

\* Every plan of at most maxRoutes routes storing at most maxLen ids
PlansOver(ids, maxRoutes, maxLen) ==
    { << >> } \cup
    UNION { UNION { { SplitAt(f, k, c) : c \in Cuts(f, k) } : k \in 1..maxRoutes }
            : f \in SeqsUpTo(ids, maxLen) }

----------------------------------------------------------------------------
(* The plan operators called on their own, on any plan that stores customer *)
(* ids (any number of times each) in at most one route more than the fleet  *)

Idle ==
    /\ included_clients = {} /\ tree = << >> /\ pq = {} /\ matching = {}
    /\ vertex_to_edges = << >> /\ stack = << >> /\ eulerian_tour = << >>
    /\ tour = << >> /\ tour_without_depot = << >> /\ rotation = 0
    /\ current_partition = << >> /\ best_partition = None /\ initial_plan = None
    /\ reference_solution = << >> /\ optimal_solution = << >>
    /\ elapsed = 0 /\ iterations = 0 /\ values = << >> /\ solution = None

NoCall == [op |-> "none", args |-> << >>, before |-> << >>]

InitOps ==
    /\ instance \in PlanInstances
    /\ timeout = None
    /\ pc = "ready"
    /\ fault = ""
    /\ Idle
    /\ plan \in PlansOver(1..(Len(instance.clients) - 1),
                         instance.number_of_vehicles + 1, MaxPlanLen)
    /\ call = NoCall
    /\ outcome = "none"

Returned(op, args, result) ==
    /\ pc = "ready"
    /\ pc' = "returned"
    /\ call' = [op |-> op, args |-> args, before |-> plan]
    /\ plan' = result.routes
    /\ outcome' = result.res
    /\ UNCHANGED << instance, timeout, fault, tourVars, partVars, runVars, solution >>

CallFeasible == Returned("feasible", << >>, Result(plan, feasible(plan)))

CallInterShift ==
    \E client \in Customers :
        \E drawn \in Choose(InterShiftTargets(plan, client)) :
            Returned("inter_shift", << client, drawn >>, inter_shift(plan, client, drawn))

CallInterSwap ==
    \E client1 \in Customers, client2 \in Customers :
        Returned("inter_swap", << client1, client2 >>, inter_swap(plan, client1, client2))

CallIntraShift ==
    \E client \in Customers :
        Returned("intra_shift", << client >>, intra_shift(plan, client))

CallIntraSwap ==
    \E client1 \in Customers, client2 \in Customers :
        Returned("intra_swap", << client1, client2 >>, intra_swap(plan, client1, client2))

\* closest_clients of VehicleRoutingGraph::new for client i: the ids
\* 1..n-1 in a stable sort by their distance from i
closest_clients(i) ==
    LET ids == 1..(NumClients - 1)
        Before(k, j) == \/ distance(i, k) < distance(i, j)
                        \/ distance(i, k) = distance(i, j) /\ k < j
    IN  [p \in 1..Cardinality(ids) |->
            CHOOSE j \in ids : Cardinality({ k \in ids : Before(k, j) }) = p - 1]

\* VehicleRoutingGraph::neighbors
neighbors(client) == closest_clients(client)

\* neighbors() called on the graph of the instance, collected into a sequence
CallNeighbors ==
    \E client \in ClientIds :
        Returned("neighbors", << client >>, Result(plan, neighbors(client)))

\* value() called on the plan: the cost, or the panic of route.last().unwrap()
CallValue ==
    Returned("value", << >>,
             Result(plan, IF ValuePanics(plan) THEN "panic" ELSE value(plan)))

\* intra_swap called twice in succession with the same clients; the result of
\* the first call is kept as the third argument
CallIntraSwapTwice ==
    \E client1 \in Customers, client2 \in Customers :
        LET once == intra_swap(plan, client1, client2)
        IN  Returned("intra_swap_twice", << client1, client2, once.res >>,
                     intra_swap(once.routes, client1, client2))

\* insert_cost without its loop over the routes: the first route is taken
insert_cost_first_route(routes, client) ==
    IF routes = << >> THEN Result(routes, "panic")
    ELSE Result([routes EXCEPT
                    ![1] = VecInsert(@, lowest_cost_position(routes, client, 1).index,
                                     client)],
                "Unit")

\* RoutingPlan::insert_cost: the first route, in order, whose lowest cost is
\* strictly lowest; self.routes[0] is out of bounds on a plan without routes
insert_cost(routes, client) ==
    IF routes = << >> THEN Result(routes, "panic")
    ELSE LET cost(r) == lowest_cost_position(routes, client, r).cost
             best_route_index ==
                 CHOOSE r \in 1..Len(routes) :
                    /\ \A q \in 1..Len(routes) : cost(r) <= cost(q)
                    /\ \A q \in 1..(r - 1) : cost(q) > cost(r)
             route_position == lowest_cost_position(routes, client, best_route_index).index
         IN  Result([routes EXCEPT
                        ![best_route_index] = VecInsert(@, route_position, client)],
                    "Unit")

CallInsertCost ==
    \E client \in Customers :
        Returned("insert_cost", << client >>, insert_cost(plan, client))

\* remove_sequential without its loop: the client alone is removed
remove_sequential_once(routes, client, size) ==
    IF FirstRouteOf(routes, client) = None THEN Result(routes, "panic")
    ELSE LET route_idx == FirstRouteOf(routes, client)[1]
         IN  Result([routes EXCEPT ![route_idx] = VecRemove(@, Position(@, client))],
                    "Unit")

\* RoutingPlan::remove_sequential
remove_sequential(routes, client, size) ==
    IF FirstRouteOf(routes, client) = None THEN Result(routes, "panic")
    ELSE LET route_idx  == FirstRouteOf(routes, client)[1]
             route      == routes[route_idx]
             client_idx == Position(route, client)
             count      == IF size < Len(route) - client_idx
                           THEN size ELSE Len(route) - client_idx
         IN  Result([routes EXCEPT
                        ![route_idx] = SubSeq(route, 1, client_idx)
                                       \o SubSeq(route, client_idx + count + 1, Len(route))],
                    "Unit")

CallRemoveSequential ==
    \E client \in Customers, size \in 0..MaxSize :
        Returned("remove_sequential", << client, size >>,
                 remove_sequential(plan, client, size))

\* Iterator::take(n)
Take(s, n) == SubSeq(s, 1, IF n < Len(s) THEN n ELSE Len(s))

\* The loop of remove_concentric: remove(client, 1, Sequential) for each client in turn
RECURSIVE RemoveEach(_, _)
RemoveEach(routes, clients_to_remove) ==
    IF clients_to_remove = << >> THEN Result(routes, "Unit")
    ELSE LET removed == remove_sequential(routes, Head(clients_to_remove), 1)
         IN  IF removed.res = "panic" THEN removed
             ELSE RemoveEach(removed.routes, Tail(clients_to_remove))

\* RoutingPlan::remove_concentric.  size - 1 on size = 0 panics in a build with
\* overflow checks and wraps to usize::MAX in a build without them
remove_concentric(routes, client, size, overflow_checks) ==
    IF size = 0 /\ overflow_checks THEN Result(routes, "panic")
    ELSE LET taken == IF size = 0 THEN neighbors(client)
                      ELSE Take(neighbors(client), size - 1)
         IN  RemoveEach(routes, taken \o << client >>)

CallRemoveConcentric ==
    \E client \in Customers, size \in 0..MaxSize, overflow_checks \in BOOLEAN :
        Returned("remove_concentric", << client, size >>,
                 remove_concentric(plan, client, size, overflow_checks))

NextOps ==
    \/ CallFeasible
    \/ CallInterShift
    \/ CallInterSwap
    \/ CallIntraShift
    \/ CallIntraSwap
    \/ CallValue
    \/ CallIntraSwapTwice
    \/ CallNeighbors
    \/ CallInsertCost
    \/ CallRemoveSequential
    \/ CallRemoveConcentric

SpecOps == InitOps /\ [][NextOps]_vars

\* The plan operators called on plans that store no client twice, on
\* instances of four customers
MoveInstances ==
    { Problem(Prefix(5), <<0, 2, 4, 4, 6>>, 2, 10),
      Problem(Prefix(5), <<0, 4, 4, 6, 6>>, 3, 10) }

InitMoves ==
    /\ instance \in MoveInstances
    /\ timeout = None
    /\ pc = "ready"
    /\ fault = ""
    /\ Idle
    /\ plan \in { p \in PlansOver(1..(Len(instance.clients) - 1),
                                  instance.number_of_vehicles, MaxPlanLen) :
                    \A c \in 1..(Len(instance.clients) - 1) :
                       Cardinality({ i \in 1..Len(Flatten(p)) : Flatten(p)[i] = c }) <= 1 }
    /\ call = NoCall
    /\ outcome = "none"

SpecMoves == InitMoves /\ [][NextOps]_vars

----------------------------------------------------------------------------
(* Tour constructor: VehicleRoutingGraph::chirstofides *)

\* UnorderedPair::new
UnorderedPair(a, b) ==
    IF a < b THEN [first |-> a, second |-> b] ELSE [first |-> b, second |-> a]

\* The priority without its Reverse: the longest edge pops first
LongestFirst(edge) == 0 - distance(edge.first, edge.second)

\* The priority an edge is pushed with (Reverse of its length: the shortest pops first)
Weight(edge) == distance(edge.first, edge.second)

Panic(where) ==
    /\ pc' = "panic"
    /\ fault' = where

\* mst() without the loop that queues the edges of the root
NoRootEdges == {}

\* The edges of the root, pushed before the loop of mst()
RootEdges == { UnorderedPair(0, other_client) : other_client \in 1..(NumClients - 1) }

\* mst(), up to its loop: the root is included and its edges are queued
MstStart ==
    /\ pc = "christofides"
    /\ pc' = "mst"
    /\ included_clients' = { 0 }
    /\ tree' = << >>
    /\ pq' = RootEdges
    /\ UNCHANGED << instance, timeout, fault, matching, vertex_to_edges, stack,
                    eulerian_tour, tour, partVars, runVars, solution, opVars >>

\* The clients whose edges to new_client are pushed after it joined the tree
Fringe(included) == { client \in ClientIds : client \notin included }

\* One iteration of the loop of mst(): pop a shortest edge (ties in any order)
MstStep ==
    /\ pc = "mst"
    /\ Cardinality(included_clients) < NumClients
    /\ IF pq = {}
       THEN /\ Panic("mst: pq.pop().unwrap()")
            /\ UNCHANGED << included_clients, tree, pq >>
       ELSE \E edge \in pq :
               /\ \A other \in pq : Weight(edge) <= Weight(other)
               /\ IF edge.first \in included_clients /\ edge.second \in included_clients
                  THEN /\ pq' = pq \ { edge }
                       /\ UNCHANGED << included_clients, tree >>
                  ELSE LET new_client == IF edge.first \notin included_clients
                                         THEN edge.first ELSE edge.second
                       IN  /\ included_clients' = included_clients \cup { new_client }
                           /\ tree' = Append(tree, edge)
                           /\ pq' = (pq \ { edge }) \cup
                                    { UnorderedPair(new_client, client) :
                                        client \in Fringe(included_clients \cup { new_client }) }
               /\ UNCHANGED << pc, fault >>
    /\ UNCHANGED << instance, timeout, matching, vertex_to_edges, stack,
                    eulerian_tour, tour, partVars, runVars, solution, opVars >>

\* client_degrees counted at one endpoint of each edge only
DegreeAtFirst(edges, client) ==
    Cardinality({ i \in 1..Len(edges) : edges[i].first = client })

\* client_degrees of chirstofides
Degree(edges, client) ==
    Cardinality({ i \in 1..Len(edges) : edges[i].first = client })
    + Cardinality({ i \in 1..Len(edges) : edges[i].second = client })

\* odd_clients of chirstofides
OddClients(edges) == { client \in ClientIds : Degree(edges, client) % 2 = 1 }

\* The end of mst() with its assertions, and the parity assertion of chirstofides
MstDone ==
    /\ pc = "mst"
    /\ Cardinality(included_clients) >= NumClients
    /\ IF Len(tree) # NumClients - 1
       THEN Panic("mst: assert tree.len() == clients.len() - 1")
       ELSE IF Cardinality(OddClients(tree)) % 2 # 0
       THEN Panic("chirstofides: assert odd_clients.len() % 2 == 0")
       ELSE pc' = "matching" /\ UNCHANGED fault
    /\ UNCHANGED << instance, timeout, tourVars, partVars, runVars, solution, opVars >>

\* Every perfect matching of a set of clients
RECURSIVE PerfectMatchings(_)
PerfectMatchings(subset) ==
    IF subset = {} THEN { {} }
    ELSE LET a == CHOOSE x \in subset : \A y \in subset : x <= y
         IN  UNION { { { UnorderedPair(a, b) } \cup m :
                         m \in PerfectMatchings(subset \ { a, b }) } :
                     b \in subset \ { a } }

\* find_minimum_weight_matching: the external matcher answers with a perfect
\* matching of the odd-degree clients
FindMatching ==
    /\ pc = "matching"
    /\ pc' = "euler_start"
    /\ matching' \in PerfectMatchings(OddClients(tree))
    /\ UNCHANGED << instance, timeout, fault, included_clients, tree, pq,
                    vertex_to_edges, stack, eulerian_tour, tour,
                    partVars, runVars, solution, opVars >>

\* vertex_to_edges of find_eulerian_tour: a HashSet of edges per endpoint
VertexToEdges(mst, matched) ==
    LET edges == Range(mst) \cup matched
    IN  [v \in { e.first : e \in edges } \cup { e.second : e \in edges } |->
            { e \in edges : e.first = v \/ e.second = v }]

\* find_eulerian_tour up to its loop
EulerStart ==
    /\ pc = "euler_start"
    /\ IF tree = << >>
       THEN /\ Panic("find_eulerian_tour: mst[0]")
            /\ UNCHANGED << vertex_to_edges, stack, eulerian_tour >>
       ELSE /\ pc' = "euler"
            /\ vertex_to_edges' = VertexToEdges(tree, matching)
            /\ stack' = << tree[1].first >>
            /\ eulerian_tour' = << >>
            /\ UNCHANGED fault
    /\ UNCHANGED << instance, timeout, included_clients, tree, pq, matching, tour,
                    partVars, runVars, solution, opVars >>

\* One iteration of the loop of find_eulerian_tour; the HashSet hands out its
\* edges in any order
EulerStep ==
    /\ pc = "euler"
    /\ stack # << >>
    /\ LET current_vertex == stack[Len(stack)]
       IN  IF current_vertex \notin DOMAIN vertex_to_edges
           THEN /\ Panic("find_eulerian_tour: vertex_to_edges.get_mut().unwrap()")
                /\ UNCHANGED << vertex_to_edges, stack, eulerian_tour >>
           ELSE IF vertex_to_edges[current_vertex] = {}
           THEN /\ eulerian_tour' = Append(eulerian_tour, current_vertex)
                /\ stack' = SubSeq(stack, 1, Len(stack) - 1)
                /\ UNCHANGED << vertex_to_edges, pc, fault >>
           ELSE \E edge \in vertex_to_edges[current_vertex] :
                   LET next_vertex == IF edge.first = current_vertex
                                      THEN edge.second ELSE edge.first
                   IN  /\ vertex_to_edges' =
                              [v \in DOMAIN vertex_to_edges |->
                                  IF v \in { current_vertex, next_vertex }
                                  THEN vertex_to_edges[v] \ { edge }
                                  ELSE vertex_to_edges[v]]
                       /\ stack' = Append(stack, next_vertex)
                       /\ UNCHANGED << eulerian_tour, pc, fault >>
    /\ UNCHANGED << instance, timeout, included_clients, tree, pq, matching, tour,
                    partVars, runVars, solution, opVars >>

\* slice::rotate_left(k)
RotateLeft(s, k) == SubSeq(s, k + 1, Len(s)) \o SubSeq(s, 1, k)

RECURSIVE FirstOccurrences(_, _)
FirstOccurrences(s, visited) ==
    IF s = << >> THEN << >>
    ELSE IF Head(s) \in visited THEN FirstOccurrences(Tail(s), visited)
    ELSE << Head(s) >> \o FirstOccurrences(Tail(s), visited \cup { Head(s) })

\* The shortcut without its visited set: repeated clients are kept
convert_keeping_repeats(euler) == Append(euler, 0)

\* convert_eulerian_tour_to_circuit
convert_eulerian_tour_to_circuit(euler) == Append(FirstOccurrences(euler, {}), 0)

\* The end of find_eulerian_tour (rotation to the depot) and the shortcut
\* that ends chirstofides
EulerDone ==
    /\ pc = "euler"
    /\ stack = << >>
    /\ IF 0 \notin Range(eulerian_tour)
       THEN /\ Panic("find_eulerian_tour: position(0).unwrap()")
            /\ UNCHANGED << eulerian_tour, tour >>
       ELSE /\ eulerian_tour' = RotateLeft(eulerian_tour, Position(eulerian_tour, 0))
            /\ tour' = convert_eulerian_tour_to_circuit(eulerian_tour')
            /\ pc' = "partition_start"
            /\ UNCHANGED fault
    /\ UNCHANGED << instance, timeout, included_clients, tree, pq, matching,
                    vertex_to_edges, stack, partVars, runVars, solution, opVars >>

\* Graphs handed to chirstofides: the depot at the origin and any placement of
\* 1..MaxTourClients-1 customers on a few points (the origin among them), and
\* the six-client scenario of the tests
Grid == { <<0, 0>>, <<1, 0>>, <<3, 0>>, <<0, 2>>, <<3, 2>> }

TourInstances ==
    { Problem(points, [i \in 1..Len(points) |-> 0], 1, 0) :
        points \in { << <<0, 0>> >> \o rest :
                        rest \in UNION { [1..n -> Grid] : n \in 1..(MaxTourClients - 1) } } }
    \cup { Problem(ScenarioPoints, <<0, 0, 0, 0, 0, 0>>, 1, 0) }

InitTour ==
    /\ instance \in TourInstances
    /\ timeout = None
    /\ pc = "christofides"
    /\ fault = ""
    /\ Idle
    /\ plan = << >>
    /\ call = NoCall
    /\ outcome = "none"

NextTour ==
    \/ MstStart
    \/ MstStep
    \/ MstDone
    \/ FindMatching
    \/ EulerStart
    \/ EulerStep
    \/ EulerDone

SpecTour == InitTour /\ [][NextTour]_vars

\* mst() and the degree count that follows it in chirstofides, run to their
\* end: the loop of mst() is sequential code, so each of its steps is taken
NextMst ==
    \/ MstStart
    \/ MstStep
    \/ MstDone

SpecMst == InitTour /\ [][NextMst]_vars /\ WF_vars(NextMst)

\* find_eulerian_tour called on its own, as test_eulerian_tour calls it: on
\* any list of edges, in any order, that is cut into the mst argument (never
\* empty) and the matching argument
EulerEdges ==
    { e \in [first : 0..(MaxTourClients - 1), second : 0..(MaxTourClients - 1)] :
        e.first < e.second }

\* The number of edges of mst and matching that end in vertex v
Touching(mst, matched, v) ==
    Cardinality({ i \in 1..Len(mst) : mst[i].first = v \/ mst[i].second = v })
    + Cardinality({ e \in matched : e.first = v \/ e.second = v })

\* The vertices joined to those of reached by a path of the edges
RECURSIVE ReachedBy(_, _)
ReachedBy(reached, edges) ==
    LET more == { v \in 0..(MaxTourClients - 1) \ reached :
                    \E e \in edges : \/ e.first = v /\ e.second \in reached
                                     \/ e.second = v /\ e.first \in reached }
    IN  IF more = {} THEN reached ELSE ReachedBy(reached \cup more, edges)

\* The multigraph of the two arguments is connected, has all degrees even and
\* contains the depot
EulerianArguments(mst, matched) ==
    /\ mst # << >>
    /\ \A v \in 0..(MaxTourClients - 1) : Touching(mst, matched, v) % 2 = 0
    /\ Touching(mst, matched, 0) > 0
    /\ ReachedBy({ 0 }, Range(mst) \cup matched)
          = { v \in 0..(MaxTourClients - 1) : Touching(mst, matched, v) > 0 }

InitEuler ==
    /\ instance = Problem(Prefix(MaxTourClients), [i \in 1..MaxTourClients |-> 0], 1, 0)
    /\ timeout = None
    /\ pc = "euler_start"
    /\ fault = ""
    /\ included_clients = {}
    /\ pq = {}
    /\ \E list \in UNION { [1..n -> EulerEdges] : n \in 1..MaxListLen } :
          \E k \in 1..Len(list) :
             /\ tree = SubSeq(list, 1, k)
             /\ matching = Range(SubSeq(list, k + 1, Len(list)))
             /\ Cardinality(matching) = Len(list) - k
    /\ EulerianArguments(tree, matching)
    /\ vertex_to_edges = << >>
    /\ stack = << >>
    /\ eulerian_tour = << >>
    /\ tour = << >>
    /\ tour_without_depot = << >>
    /\ rotation = 0
    /\ current_partition = << >>
    /\ best_partition = None
    /\ initial_plan = None
    /\ reference_solution = << >>
    /\ optimal_solution = << >>
    /\ elapsed = 0
    /\ iterations = 0
    /\ values = << >>
    /\ solution = None
    /\ plan = << >>
    /\ call = NoCall
    /\ outcome = "none"

NextEuler ==
    \/ EulerStart
    \/ EulerStep
    \/ EulerDone

SpecEuler == InitEuler /\ [][NextEuler]_vars

----------------------------------------------------------------------------
(* Route partitioner: VehicleRoutingProblem::partition_tour *)

\* The last route, in vehicle order, with room for the client
LastFit(routes, client) ==
    IF \E r \in 1..Len(routes) :
          RouteDemand(routes[r]) + demand(client) <= instance.vehicle_capacity
    THEN Some(CHOOSE r \in 1..Len(routes) :
                 /\ RouteDemand(routes[r]) + demand(client) <= instance.vehicle_capacity
                 /\ \A q \in (r + 1)..Len(routes) :
                       RouteDemand(routes[q]) + demand(client) > instance.vehicle_capacity)
    ELSE None

\* The first route, in vehicle order, with room for the client (None: it fits nowhere)
FirstFit(routes, client) ==
    IF \E r \in 1..Len(routes) :
          RouteDemand(routes[r]) + demand(client) <= instance.vehicle_capacity
    THEN Some(CHOOSE r \in 1..Len(routes) :
                 /\ RouteDemand(routes[r]) + demand(client) <= instance.vehicle_capacity
                 /\ \A q \in 1..(r - 1) :
                       RouteDemand(routes[q]) + demand(client) > instance.vehicle_capacity)
    ELSE None

\* The greedy assignment loop: clients in order, each into its first fit; a
\* client that fits nowhere is not stored
RECURSIVE Assign(_, _)
Assign(clients, routes) ==
    IF clients = << >> THEN routes
    ELSE LET slot == FirstFit(routes, Head(clients))
         IN  IF slot = None THEN Assign(Tail(clients), routes)
             ELSE Assign(Tail(clients),
                         [routes EXCEPT ![slot[1]] = Append(@, Head(clients))])

EmptyRoutes == [r \in 1..instance.number_of_vehicles |-> << >>]

\* partition_tour up to its loop
PartitionStart ==
    /\ pc = "partition_start"
    /\ pc' = "partition"
    /\ tour_without_depot' = SubSeq(tour, 2, Len(tour) - 1)
    /\ rotation' = 0
    /\ current_partition' = << >>
    /\ best_partition' = None
    /\ UNCHANGED << instance, timeout, fault, tourVars, runVars, solution, opVars >>

\* The plan kept between a new feasible partition and the best one so far
BetterOf(partition, best) == IF value(partition) < value(best) THEN partition ELSE best

\* The foot of the loop body of partition_tour
NextRotation(tour_now) == RotateLeft1(tour_now)

\* One iteration of the loop of partition_tour
PartitionStep ==
    /\ pc = "partition"
    /\ rotation < Len(tour_without_depot)
    /\ LET partition == Assign(tour_without_depot, EmptyRoutes)
       IN  /\ current_partition' = partition
           /\ IF feasible(partition) # "Ok"
              THEN \* continue: the rotate_left at the foot of the loop is skipped too
                   /\ rotation' = rotation + 1
                   /\ UNCHANGED << tour_without_depot, best_partition, pc, fault >>
              ELSE IF best_partition = None
              THEN /\ best_partition' = Some(partition)
                   /\ tour_without_depot' = NextRotation(tour_without_depot)
                   /\ rotation' = rotation + 1
                   /\ UNCHANGED << pc, fault >>
              ELSE IF ValuePanics(partition) \/ ValuePanics(best_partition[1])
              THEN /\ Panic("value: route.last().unwrap()")
                   /\ UNCHANGED << tour_without_depot, rotation, best_partition >>
              ELSE /\ best_partition' = Some(BetterOf(partition, best_partition[1]))
                   /\ tour_without_depot' = NextRotation(tour_without_depot)
                   /\ rotation' = rotation + 1
                   /\ UNCHANGED << pc, fault >>
    /\ UNCHANGED << instance, timeout, tourVars, runVars, solution, opVars >>

\* partition_tour returns best_partition, which solve hands to AILS::run
PartitionReturn ==
    /\ pc = "partition"
    /\ rotation >= Len(tour_without_depot)
    /\ pc' = "run_start"
    /\ initial_plan' = best_partition
    /\ UNCHANGED << instance, timeout, fault, tourVars, partVars, reference_solution,
                    optimal_solution, elapsed, iterations, values, solution, opVars >>

----------------------------------------------------------------------------
(* Search driver: AILS::run and RoutingPlan::local_search *)

\* The literal the loop of run compares the elapsed seconds with
HardcodedDeadline == 200

\* Seconds the clock may advance during one iteration
Ticks == { 0, 100 }

\* The sequences choose_multiple may return: amount distinct elements in any order
ChooseMultiple(elements, amount) ==
    LET k == IF amount < Cardinality(elements) THEN amount ELSE Cardinality(elements)
    IN  { s \in [1..k -> elements] : \A i, j \in 1..k : i # j => s[i] # s[j] }

\* AILS::find_initial_solution, random_clients being what choose_multiple returned
find_initial_solution(random_clients) ==
    Assign(random_clients,
           [r \in 1..instance.number_of_vehicles |->
               IF r <= Len(random_clients) THEN << random_clients[r] >> ELSE << >>])

\* The plans run may start from: the one handed in, else any find_initial_solution makes
InitialSolutions(handed) ==
    IF handed = None
    THEN { find_initial_solution(rc) :
             rc \in ChooseMultiple(0..(instance.number_of_customers - 1),
                                   instance.number_of_vehicles) }
    ELSE { handed[1] }

\* AILS::run up to its loop
RunStart ==
    /\ pc = "run_start"
    /\ pc' = "run"
    /\ \E initial_solution \in InitialSolutions(initial_plan) :
          /\ reference_solution' = initial_solution
          /\ optimal_solution' = initial_solution
          /\ values' = << value(initial_solution) >>
    /\ elapsed' = 0
    /\ iterations' = 0
    /\ UNCHANGED << instance, timeout, fault, tourVars, partVars, initial_plan,
                    solution, opVars >>

\* What one local_search may make of the routes: a strategy is drawn, then its
\* client(s) among the stored ids, then (inter_shift) the target route
LocalSearchResults(routes) ==
    LET stored == Range(Flatten(routes))
    IN  UNION { { inter_shift(routes, client, drawn) :
                    drawn \in Choose(InterShiftTargets(routes, client)) } :
                client \in stored }
        \cup { inter_swap(routes, client1, client2) :
                 client1 \in stored, client2 \in stored }
        \cup { intra_shift(routes, client) : client \in stored }
        \cup { intra_swap(routes, client1, client2) :
                 client1 \in stored, client2 \in stored }

\* The snapshot without its comparison: reference always replaces optimal
KeepLatest(optimal, reference) == reference

\* The snapshot kept after an iteration of run
KeepBest(optimal, reference) ==
    IF value(reference) < value(optimal) THEN reference ELSE optimal

\* The loop condition of run
LoopContinues == elapsed < HardcodedDeadline

\* One iteration of the loop of run: local_search on reference, then the snapshot
RunIter ==
    /\ pc = "run"
    /\ LoopContinues
    /\ iterations < MaxIter
    /\ IF Flatten(reference_solution) = << >>
       THEN /\ Panic("local_search: choose().unwrap()")
            /\ UNCHANGED runVars
       ELSE \E result \in LocalSearchResults(reference_solution) :
               IF result.res = "panic"
               THEN /\ Panic("local_search: unwrap() in a move")
                    /\ UNCHANGED runVars
               ELSE IF ValuePanics(result.routes) \/ ValuePanics(optimal_solution)
               THEN /\ Panic("value: route.last().unwrap()")
                    /\ UNCHANGED runVars
               ELSE /\ reference_solution' = result.routes
                    /\ values' = Append(values, value(result.routes))
                    /\ optimal_solution' = KeepBest(optimal_solution, result.routes)
                    /\ iterations' = iterations + 1
                    /\ \E dt \in Ticks : elapsed' = elapsed + dt
                    /\ UNCHANGED << pc, fault, initial_plan >>
    /\ UNCHANGED << instance, timeout, tourVars, partVars, solution, opVars >>

\* run returns optimal_solution and solve builds the VehicleRoutingSolution
RunReturn ==
    /\ pc = "run"
    /\ ~LoopContinues
    /\ IF ValuePanics(optimal_solution)
       THEN /\ Panic("value: route.last().unwrap()")
            /\ UNCHANGED solution
       ELSE /\ pc' = "done"
            /\ solution' = Some([is_optimal |-> FALSE,
                                 cost       |-> value(optimal_solution),
                                 routes     |-> optimal_solution])
            /\ UNCHANGED fault
    /\ UNCHANGED << instance, timeout, tourVars, partVars, runVars, opVars >>

----------------------------------------------------------------------------
(* VehicleRoutingProblem::solve, from the loaded instance to the solution *)

Demands == { 4, 6 }

Fleets == { 2, 3 }

\* Instances handed to solve: the first 3..MaxClients scenario points, any
\* demands of the customers, either fleet, capacity 10
SolveInstances ==
    UNION { { Problem(Prefix(n), << 0 >> \o d, v, 10) :
                d \in [1..(n - 1) -> Demands], v \in Fleets } :
            n \in 3..MaxClients }

TimeoutArgs == { None, Some(100) }

Init ==
    /\ instance \in SolveInstances
    /\ timeout \in TimeoutArgs
    /\ pc = "christofides"
    /\ fault = ""
    /\ Idle
    /\ plan = << >>
    /\ call = NoCall
    /\ outcome = "none"

Next ==
    \/ MstStart
    \/ MstStep
    \/ MstDone
    \/ FindMatching
    \/ EulerStart
    \/ EulerStep
    \/ EulerDone
    \/ PartitionStart
    \/ PartitionStep
    \/ PartitionReturn
    \/ RunStart
    \/ RunIter
    \/ RunReturn

Spec == Init /\ [][Next]_vars

\* solve up to the return of partition_tour: chirstofides, then the partitioner
NextPartition ==
    \/ MstStart
    \/ MstStep
    \/ MstDone
    \/ FindMatching
    \/ EulerStart
    \/ EulerStep
    \/ EulerDone
    \/ PartitionStart
    \/ PartitionStep
    \/ PartitionReturn

SpecPartition == Init /\ [][NextPartition]_vars

\* AILS::run called on its own: the plans handed in are those feasible()
\* accepts, or none
HandedPlans(problem) ==
    { None } \cup
    { Some(routes) :
        routes \in { p \in PlansOver(1..(problem.number_of_customers),
                                     problem.number_of_vehicles, MaxPlanLen) :
                       /\ Range(Flatten(p)) = 1..(problem.number_of_customers)
                       /\ \A r \in 1..Len(p) :
                             SumSeq([i \in 1..Len(p[r]) |-> problem.clients[p[r][i] + 1].demand])
                                <= problem.vehicle_capacity } }

InitRun ==
    /\ instance \in PlanInstances
    /\ timeout = None
    /\ pc = "run_start"
    /\ fault = ""
    /\ included_clients = {}
    /\ tree = << >>
    /\ pq = {}
    /\ matching = {}
    /\ vertex_to_edges = << >>
    /\ stack = << >>
    /\ eulerian_tour = << >>
    /\ tour = << >>
    /\ tour_without_depot = << >>
    /\ rotation = 0
    /\ current_partition = << >>
    /\ best_partition = None
    /\ initial_plan \in HandedPlans(instance)
    /\ reference_solution = << >>
    /\ optimal_solution = << >>
    /\ elapsed = 0
    /\ iterations = 0
    /\ values = << >>
    /\ solution = None
    /\ plan = << >>
    /\ call = NoCall
    /\ outcome = "none"

NextRun ==
    \/ RunStart
    \/ RunIter
    \/ RunReturn

SpecRun == InitRun /\ [][NextRun]_vars

----------------------------------------------------------------------------
(* Properties of the plan operators called on their own (SpecOps) *)

Count(routes, client) ==
    Cardinality({ i \in 1..Len(Flatten(routes)) : Flatten(routes)[i] = client })

InPlan(routes, client) == \E r \in 1..Len(routes) : client \in Range(routes[r])

Called(op) == pc = "returned" /\ call.op = op

\* C4: for every plan with at most number_of_vehicles routes in which some
\* customer id appears more than once, or some customer id appears in no
\* route, feasible() returns a failure rather than success.
C4_DuplicateOrMissingRejected ==
    ( /\ Called("feasible")
      /\ Len(call.before) <= instance.number_of_vehicles
      /\ \E c \in Customers : Count(call.before, c) > 1 \/ Count(call.before, c) = 0 )
    => outcome # "Ok"

\* C8: each of the four moves, called with a client that is in no route,
\* reports the invalid-tour failure, does not abort, and leaves the plan as it was.
C8_AbsentClientReported ==
    ( /\ pc = "returned"
      /\ \/ call.op \in { "inter_shift", "intra_shift" }
            /\ ~InPlan(call.before, call.args[1])
         \/ call.op \in { "inter_swap", "intra_swap" }
            /\ (~InPlan(call.before, call.args[1]) \/ ~InPlan(call.before, call.args[2])) )
    => ( outcome = "InvalidTour" /\ plan = call.before )

\* The plan with every occurrence of client taken out
Without(routes, client) ==
    [r \in 1..Len(routes) |-> SelectSeq(routes[r], LAMBDA c : c # client)]

\* C9: when inter_shift(client) draws a target route that has room for the
\* client, afterwards the client has left its original route and is exactly
\* once in the plan, in the target route at a position of lowest insertion
\* cost, and every other customer keeps its route and relative order.
C9_InterShiftMoves ==
    ( /\ Called("inter_shift")
      /\ Count(call.before, call.args[1]) = 1
      /\ call.args[2] # None
      /\ RouteDemand(call.before[call.args[2][1]]) + demand(call.args[1])
            <= instance.vehicle_capacity )
    => LET client == call.args[1]
           target == call.args[2][1]
           origin == FirstRouteOf(call.before, client)[1]
           rest   == Without(call.before, client)
       IN  /\ client \notin Range(plan[origin])
           /\ Count(plan, client) = 1
           /\ client \in Range(plan[target])
           /\ Without(plan, client) = rest
           /\ \A i \in 0..Len(rest[target]) :
                 InsertionCost(rest[target], client, Position(plan[target], client))
                    <= InsertionCost(rest[target], client, i)

----------------------------------------------------------------------------
(* Properties of solve (Spec) *)

\* Feasibility as the data model states it: route count, exact coverage,
\* capacity, and no depot inside a route
Feasible(routes) ==
    /\ Len(routes) <= instance.number_of_vehicles
    /\ \A c \in Customers : Count(routes, c) = 1
    /\ \A r \in 1..Len(routes) : RouteDemand(routes[r]) <= instance.vehicle_capacity
    /\ 0 \notin Range(Flatten(routes))

PartitionReturned == pc \in { "run_start", "run", "done" }

\* C1: when run starts from a feasible initial plan, the plan it returns is
\* feasible, whatever moves were drawn.
C1_ReturnedPlanFeasible ==
    (pc = "done" /\ initial_plan # None /\ Feasible(initial_plan[1]))
    => Feasible(solution[1].routes)

\* The first-fit partitions of the rotations of the depot-free tour that feasible() accepts
FeasibleRotations ==
    LET base == SubSeq(tour, 2, Len(tour) - 1)
    IN  { p \in { Assign(RotateLeft(base, k), EmptyRoutes) : k \in 0..(Len(base) - 1) } :
            feasible(p) = "Ok" }

\* C2: partition_tour returns the cheapest feasible first-fit partition over
\* all rotations of the depot-free tour, and none only when no rotation is
\* feasible (an infeasible rotation is skipped and the later ones still tried).
C2_BestOverAllRotations ==
    pc = "run_start"
    => IF initial_plan = None THEN FeasibleRotations = {}
       ELSE /\ initial_plan[1] \in FeasibleRotations
            /\ \A p \in FeasibleRotations : value(initial_plan[1]) <= value(p)

\* C3: a plan returned by partition_tour passes feasible(): at most
\* number_of_vehicles routes, every customer of the tour exactly once, every
\* route within the capacity.
C3_ReturnedPartitionFeasible ==
    (PartitionReturned /\ initial_plan # None)
    => /\ feasible(initial_plan[1]) = "Ok"
       /\ Len(initial_plan[1]) <= instance.number_of_vehicles
       /\ \A c \in Customers : Count(initial_plan[1], c) = 1
       /\ \A r \in 1..Len(initial_plan[1]) :
             RouteDemand(initial_plan[1][r]) <= instance.vehicle_capacity

\* partition_tour returned a plan of four customers that is not the first
\* rotation's partition
C3_Witness ==
    /\ pc = "run_start"
    /\ initial_plan # None
    /\ NumClients = 5
    /\ initial_plan[1] # Assign(SubSeq(tour, 2, Len(tour) - 1), EmptyRoutes)

\* C5: when partition_tour returns none, solve fails: the search driver is
\* not run and no solution is built from a substitute plan.
C5_NoPartitionIsFatal ==
    (PartitionReturned /\ initial_plan = None) => (pc = "run_start" /\ solution = None)

Min(costs) == CHOOSE m \in Range(costs) : \A v \in Range(costs) : m <= v

\* C6: after every iteration of run the cost of optimal is the least of the
\* initial cost and the costs of reference after each iteration so far, and
\* the plan returned costs no more than the initial plan.
C6_OptimalIsBestSeen ==
    /\ pc = "run" => value(optimal_solution) = Min(values)
    /\ pc = "done" => /\ solution[1].cost = Min(values)
                      /\ solution[1].cost <= values[1]

\* run, started from a feasible plan, returned after reference first got
\* cheaper than the initial plan and then dearer again
C6_Witness ==
    /\ pc = "done"
    /\ initial_plan # None
    /\ Feasible(initial_plan[1])
    /\ Len(values) = 3
    /\ values[2] < values[1]
    /\ values[3] > values[2]
    /\ solution[1].cost = values[2]

\* C7: run starts no iteration once the deadline the caller gave to solve
\* has been reached.
C7_CallerDeadlineObserved ==
    [][ (pc = "run" /\ iterations' = iterations + 1 /\ timeout # None)
        => elapsed < timeout[1] ]_vars

----------------------------------------------------------------------------
(* Properties of the tour constructor (SpecTour) *)

TourReturned == pc = "partition_start"

\* C10: for n >= 2 clients the tour returned by chirstofides() has length
\* n + 1, starts and ends with the depot, and holds every customer 1..n-1
\* exactly once in between, whatever perfect matching the matcher returned.
C10_ShortcutTourIsHamiltonian ==
    (TourReturned /\ NumClients >= 2)
    => /\ Len(tour) = NumClients + 1
       /\ tour[1] = 0
       /\ tour[Len(tour)] = 0
       /\ \A c \in Customers :
             Cardinality({ i \in 2..(Len(tour) - 1) : tour[i] = c }) = 1

\* A tour was returned for a graph whose matching doubles an edge of the tree
\* and whose Eulerian walk visited some client more than once
C10_Witness ==
    /\ TourReturned
    /\ NumClients >= 4
    /\ matching \cap Range(tree) # {}
    /\ Len(eulerian_tour) > NumClients

\* The edges find_eulerian_tour is handed: the tree and the matching
HandedEdges == Range(tree) \cup matching

\* C11: the sequence find_eulerian_tour returns has one vertex more than the
\* tree and the matching have edges together, and every two consecutive
\* vertices of it are joined by an edge of the tree or of the matching, also
\* when a matching edge coincides with a tree edge.
C11_EulerianTourWalksEveryEdge ==
    TourReturned
    => /\ Len(eulerian_tour) = Len(tree) + Cardinality(matching) + 1
       /\ \A i \in 1..(Len(eulerian_tour) - 1) :
             UnorderedPair(eulerian_tour[i], eulerian_tour[i + 1]) \in HandedEdges

----------------------------------------------------------------------------
(* Properties of mst() (SpecMst) *)

\* mst() has returned its tree and the parity assertion of chirstofides has passed
MstReturned == pc = "matching"

\* C12: for n >= 2 clients mst() terminates and returns n-1 edges among whose
\* endpoints every client is found; neither closing assertion (nor the pop
\* of the queue) fails.
C12_MstSpansEveryClient ==
    /\ [](fault = "")
    /\ [](MstReturned =>
            /\ Len(tree) = NumClients - 1
            /\ Cardinality(included_clients) = NumClients
            /\ \A client \in ClientIds :
                  \E i \in 1..Len(tree) : client \in { tree[i].first, tree[i].second })
    /\ <>MstReturned

\* mst() returned the tree of the six-client scenario
C12_Witness ==
    /\ MstReturned
    /\ NumClients = 6
    /\ Len(tree) = 5

\* Every edge of the complete distance graph
CompleteEdges == { e \in [first : ClientIds, second : ClientIds] : e.first < e.second }

\* The clients joined to the clients of reached by a path of the edges
RECURSIVE Connected(_, _)
Connected(reached, edges) ==
    LET more == { c \in ClientIds \ reached :
                    \E e \in edges : \/ e.first = c /\ e.second \in reached
                                     \/ e.second = c /\ e.first \in reached }
    IN  IF more = {} THEN reached ELSE Connected(reached \cup more, edges)

SpanningTrees ==
    { t \in SUBSET CompleteEdges :
        Cardinality(t) = NumClients - 1 /\ Connected({ 0 }, t) = ClientIds }

RECURSIVE TotalLength(_)
TotalLength(edges) ==
    IF edges = {} THEN 0
    ELSE LET e == CHOOSE x \in edges : TRUE
         IN  distance(e.first, e.second) + TotalLength(edges \ { e })

\* The edges that join a client of the tree to a client outside it
Crossing(included) ==
    { e \in CompleteEdges : (e.first \in included) # (e.second \in included) }

ScenarioGraph == Problem(ScenarioPoints, <<0, 0, 0, 0, 0, 0>>, 1, 0)

\* C13: every edge mst() adds is a shortest edge joining a client of the tree
\* to a client outside it; the edges returned are a spanning tree of least
\* total length among all spanning trees of the complete distance graph; on
\* the six-client scenario they are 0-2, 0-4, 0-5, 1-2, 3-4.
C13_MstIsMinimum ==
    /\ [][ tree' # tree =>
             LET added == tree'[Len(tree')]
             IN  /\ added \in Crossing(included_clients)
                 /\ \A e \in Crossing(included_clients) :
                       distance(added.first, added.second) <= distance(e.first, e.second)
         ]_vars
    /\ [](MstReturned =>
            /\ Range(tree) \in SpanningTrees
            /\ \A t \in SpanningTrees : TotalLength(Range(tree)) <= TotalLength(t)
            /\ instance = ScenarioGraph =>
                  Range(tree) = { UnorderedPair(0, 2), UnorderedPair(0, 4),
                                  UnorderedPair(0, 5), UnorderedPair(1, 2),
                                  UnorderedPair(3, 4) })

\* mst() returned the tree of a graph in which some spanning tree is longer
\* and the edges of the root alone are not the answer
C13_Witness ==
    /\ MstReturned
    /\ NumClients >= 4
    /\ \E t \in SpanningTrees : TotalLength(t) > TotalLength(Range(tree))
    /\ \E i \in 1..Len(tree) : tree[i].first # 0

\* C18: the number of clients of odd degree in the tree returned by mst() is
\* even, so the parity assertion of chirstofides never fails.
C18_OddDegreeClientsAreEven ==
    /\ fault # "chirstofides: assert odd_clients.len() % 2 == 0"
    /\ (pc \in { "matching", "panic" } /\ Len(tree) = NumClients - 1)
       => Cardinality(OddClients(tree)) % 2 = 0

\* chirstofides passed its parity assertion with four clients of odd degree
C18_Witness ==
    /\ MstReturned
    /\ Cardinality(OddClients(tree)) = 4

----------------------------------------------------------------------------
(* Further properties of the plan operators (SpecOps) *)

\* C14: for any plan and two distinct clients that lie in one route of it,
\* intra_swap(c1, c2) applied twice in succession succeeds both times and
\* gives back the original plan, hence the original value().
C14_IntraSwapTwiceRestores ==
    ( /\ Called("intra_swap_twice")
      /\ call.args[1] # call.args[2]
      /\ \E r \in 1..Len(call.before) :
            { call.args[1], call.args[2] } \subseteq Range(call.before[r]) )
    => /\ call.args[3] = "Ok"
       /\ outcome = "Ok"
       /\ plan = call.before
       /\ value(plan) = value(call.before)

\* Every customer is stored exactly once
ExactCoverage(routes) == \A c \in Customers : Count(routes, c) = 1

\* C15: feasible() answers too-many-routes for every plan with more routes
\* than number_of_vehicles, capacity-exceeded for every plan with an
\* admissible route count and exact coverage in which some route's demand
\* exceeds the capacity, and success only if route count, coverage and
\* capacity all hold.
C15_FeasibleNamesTheFailure ==
    Called("feasible")
    => /\ Len(call.before) > instance.number_of_vehicles => outcome = "TooManyVehicles"
       /\ ( /\ Len(call.before) <= instance.number_of_vehicles
            /\ ExactCoverage(call.before)
            /\ \E r \in 1..Len(call.before) :
                  RouteDemand(call.before[r]) > instance.vehicle_capacity )
          => outcome = "ExceedsVehicleCapacity"
       /\ outcome = "Ok"
          => /\ Len(call.before) <= instance.number_of_vehicles
             /\ ExactCoverage(call.before)
             /\ \A r \in 1..Len(call.before) :
                   RouteDemand(call.before[r]) <= instance.vehicle_capacity

\* The length of the closed walk depot, route, depot, leg by leg
RECURSIVE WalkLength(_)
WalkLength(stops) ==
    IF Len(stops) < 2 THEN 0
    ELSE distance(stops[1], stops[2]) + WalkLength(Tail(stops))

AllRoutesNonEmpty(routes) == \A r \in 1..Len(routes) : routes[r] # << >>

\* C17: for every plan whose routes are all non-empty, value() is the sum
\* over the routes of distance(depot, first customer), the distances between
\* consecutive customers and distance(last customer, depot).
C17_ValueIsClosedRouteLength ==
    (Called("value") /\ AllRoutesNonEmpty(call.before))
    => outcome = SumSeq([r \in 1..Len(call.before) |->
                            WalkLength(<< 0 >> \o call.before[r] \o << 0 >>)])

\* value() returned the cost of a plan that serves three customers by a
\* route of two stops and a route of one
C17_Witness ==
    /\ Called("value")
    /\ Len(call.before) = 2
    /\ Len(call.before[1]) = 2
    /\ Len(call.before[2]) = 1
    /\ instance.number_of_customers = 3
    /\ ExactCoverage(call.before)
    /\ outcome > 0

\* C19: after intra_shift(client) on a plan that stores the client, and no
\* client twice, the client is in its own route at a
\* position of lowest insertion cost distance(prev, client) +
\* distance(client, next) - distance(prev, next) over all positions of that
\* route with the client removed; the other customers of the route keep
\* their order, the other routes are unchanged, and value() has not grown.
C19_IntraShiftReinsertsAtBest ==
    ( /\ Called("intra_shift")
      /\ Count(call.before, call.args[1]) = 1
      /\ \A c \in Customers : Count(call.before, c) <= 1 )
    => LET client == call.args[1]
           origin == FirstRouteOf(call.before, client)[1]
           rest   == Without(call.before, client)
       IN  /\ outcome = "Unit"
           /\ Count(plan, client) = 1
           /\ client \in Range(plan[origin])
           /\ Without(plan, client) = rest
           /\ \A i \in 0..Len(rest[origin]) :
                 InsertionCost(rest[origin], client, Position(plan[origin], client))
                    <= InsertionCost(rest[origin], client, i)
           /\ value(plan) <= value(call.before)

\* C20: for every client c, neighbors(c) lists every client other than c
\* exactly once and never c itself, in non-decreasing order of distance from c.
C20_NeighborsListTheOthers ==
    Called("neighbors")
    => LET c == call.args[1]
       IN  /\ \A other \in ClientIds \ { c } :
                 Cardinality({ i \in 1..Len(outcome) : outcome[i] = other }) = 1
           /\ c \notin Range(outcome)
           /\ \A i \in 1..(Len(outcome) - 1) :
                 distance(c, outcome[i]) <= distance(c, outcome[i + 1])

----------------------------------------------------------------------------
(* Further properties of the partitioner (SpecPartition) *)

\* The demand route q holds when client is about to be placed: that of its
\* customers that come before client in the tour
LoadBefore(route, tour_now, client) ==
    SumSeq([i \in 1..Len(route) |->
               IF Position(tour_now, route[i]) < Position(tour_now, client)
               THEN demand(route[i]) ELSE 0])

\* routes is the first-fit partition of tour_now: every route keeps the tour
\* order, and every customer is in the lowest-indexed route that had room for
\* it when its turn came, or in none if no route had
IsFirstFitOf(routes, tour_now) ==
    /\ Len(routes) = instance.number_of_vehicles
    /\ \A q \in 1..Len(routes) :
          /\ Range(routes[q]) \subseteq Range(tour_now)
          /\ \A i, j \in 1..Len(routes[q]) :
                i < j => Position(tour_now, routes[q][i]) < Position(tour_now, routes[q][j])
    /\ \A k \in 1..Len(tour_now) :
          LET client  == tour_now[k]
              Fits(q) == LoadBefore(routes[q], tour_now, client) + demand(client)
                            <= instance.vehicle_capacity
          IN  IF \E q \in 1..Len(routes) : Fits(q)
              THEN /\ Count(routes, client) = 1
                   /\ \E q \in 1..Len(routes) :
                         /\ client \in Range(routes[q])
                         /\ Fits(q)
                         /\ \A lower \in 1..(q - 1) : ~Fits(lower)
              ELSE Count(routes, client) = 0

\* 2 vehicles of capacity 10 and three customers of demand 4
ThreeFours ==
    /\ instance.number_of_vehicles = 2
    /\ instance.vehicle_capacity = 10
    /\ instance.number_of_customers = 3
    /\ \A c \in Customers : demand(c) = 4

\* C16: in every rotation the partitioner puts each customer, in tour order,
\* into the lowest-indexed route whose demand so far plus the customer's
\* stays within the capacity, and the rotation is rejected when a customer
\* fits in no route; with 2 vehicles of capacity 10 and demands 4,4,4 no
\* route ever gets all three customers and the plan returned is split 2+1.
C16_FirstFitInTourOrder ==
    /\ [][ rotation' = rotation + 1 =>
             /\ IsFirstFitOf(current_partition', tour_without_depot)
             /\ (\E c \in Range(tour_without_depot) : Count(current_partition', c) = 0)
                => best_partition' = best_partition
         ]_vars
    /\ [](ThreeFours =>
            /\ \A r \in 1..Len(current_partition) : Len(current_partition[r]) < 3
            /\ pc = "run_start" =>
                  /\ initial_plan # None
                  /\ Len(initial_plan[1][1]) = 2
                  /\ Len(initial_plan[1][2]) = 1)

\* partition_tour returned from the instance of demands 4,4,4 after its
\* three rotations
C16_Witness ==
    /\ pc = "run_start"
    /\ ThreeFours
    /\ rotation = 3
    /\ initial_plan # None

----------------------------------------------------------------------------
(* Properties of the moves between and inside routes (SpecOps) *)

\* No client is stored twice
NoRepeats(routes) == \A c \in Customers : Count(routes, c) <= 1

\* client sits in route at a position of lowest insertion cost among all
\* positions of the route without it
AtLowestCost(route, client) ==
    LET rest == SelectSeq(route, LAMBDA c : c # client)
    IN  \A i \in 0..Len(rest) :
           InsertionCost(rest, client, Position(route, client))
              <= InsertionCost(rest, client, i)

\* C23: when client1 and client2 lie in different routes (of a plan that stores
\* no client twice), inter_swap succeeds; afterwards client1 is in the former
\* route of client2 and client2 in that of client1, each at a position of
\* lowest insertion cost in that route with its former occupant removed;
\* every customer is stored as often as before and both routes keep their
\* lengths.
C23_InterSwapExchangesRoutes ==
    ( /\ Called("inter_swap")
      /\ NoRepeats(call.before)
      /\ InPlan(call.before, call.args[1])
      /\ InPlan(call.before, call.args[2])
      /\ FirstRouteOf(call.before, call.args[1]) # FirstRouteOf(call.before, call.args[2]) )
    => LET client1 == call.args[1]
           client2 == call.args[2]
           route1  == FirstRouteOf(call.before, client1)[1]
           route2  == FirstRouteOf(call.before, client2)[1]
       IN  /\ outcome = "Ok"
           /\ client1 \in Range(plan[route2])
           /\ client2 \in Range(plan[route1])
           /\ AtLowestCost(plan[route2], client1)
           /\ AtLowestCost(plan[route1], client2)
           /\ Without(plan, client1)[route2] = Without(call.before, client2)[route2]
           /\ Without(plan, client2)[route1] = Without(call.before, client1)[route1]
           /\ \A c \in Customers : Count(plan, c) = Count(call.before, c)
           /\ Len(plan[route1]) = Len(call.before[route1])
           /\ Len(plan[route2]) = Len(call.before[route2])

\* inter_swap exchanged a client of a route of three stops with the client
\* of a route of one, and the incoming client did not land at the head
C23_Witness ==
    /\ Called("inter_swap")
    /\ NoRepeats(call.before)
    /\ outcome = "Ok"
    /\ Len(call.before) = 2
    /\ Len(call.before[1]) = 3
    /\ Len(call.before[2]) = 1
    /\ call.args[2] \in Range(plan[1])
    /\ plan[1][1] # call.args[2]

\* C24: inter_swap called with two clients of one route, and intra_swap
\* called with two clients of different routes or with one client twice,
\* return the invalid-arguments failure and leave every route as it was.
C24_WrongRoutesAreInvalidArguments ==
    ( /\ pc = "returned"
      /\ call.op \in { "inter_swap", "intra_swap" }
      /\ NoRepeats(call.before)
      /\ InPlan(call.before, call.args[1])
      /\ InPlan(call.before, call.args[2])
      /\ LET same == FirstRouteOf(call.before, call.args[1])
                        = FirstRouteOf(call.before, call.args[2])
         IN  IF call.op = "inter_swap" THEN same
             ELSE ~same \/ call.args[1] = call.args[2] )
    => ( outcome = "InvalidArguments" /\ plan = call.before )

\* intra_swap was called with two clients of different routes
C24_Witness ==
    /\ Called("intra_swap")
    /\ NoRepeats(call.before)
    /\ InPlan(call.before, call.args[1])
    /\ InPlan(call.before, call.args[2])
    /\ FirstRouteOf(call.before, call.args[1]) # FirstRouteOf(call.before, call.args[2])
    /\ outcome = "InvalidArguments"

\* C25: when the target route drawn by inter_shift has a summed demand that,
\* with the client's demand added, is above the capacity, inter_shift leaves
\* the whole plan unchanged; and in no case does inter_shift raise the summed
\* demand of the target route above the capacity.
C25_InterShiftRespectsCapacity ==
    ( /\ Called("inter_shift")
      /\ InPlan(call.before, call.args[1])
      /\ call.args[2] # None )
    => LET client == call.args[1]
           target == call.args[2][1]
           load == RouteDemand(call.before[target])
       IN  /\ (load + demand(client) > instance.vehicle_capacity) => plan = call.before
           /\ \/ RouteDemand(plan[target]) <= instance.vehicle_capacity
              \/ RouteDemand(plan[target]) = load

\* inter_shift drew a route that has no room for the client and returned
C25_Witness ==
    /\ Called("inter_shift")
    /\ NoRepeats(call.before)
    /\ InPlan(call.before, call.args[1])
    /\ call.args[2] # None
    /\ RouteDemand(call.before[call.args[2][1]]) <= instance.vehicle_capacity
    /\ RouteDemand(call.before[call.args[2][1]]) + demand(call.args[1])
          > instance.vehicle_capacity
    /\ outcome = "Unit"
    /\ plan = call.before

\* Every route's summed demand is within the capacity
WithinCapacity(routes) ==
    \A r \in 1..Len(routes) : RouteDemand(routes[r]) <= instance.vehicle_capacity

\* C30: inter_swap applied to a plan in which every route's summed demand is
\* within the capacity yields a plan in which every route's summed demand is
\* still within the capacity.
C30_InterSwapKeepsCapacity ==
    ( /\ Called("inter_swap")
      /\ NoRepeats(call.before)
      /\ WithinCapacity(call.before) )
    => WithinCapacity(plan)

\* C29: starting from any feasible plan without empty routes, for any fleet
\* size, a plan of a single route included, every local_search step completes
\* without a fatal failure, whichever move and clients are drawn.  (A step
\* that fails leaves reference_solution as the plan it started from.)
C29_LocalSearchNeverPanics ==
    ( /\ pc = "panic"
      /\ Feasible(reference_solution)
      /\ AllRoutesNonEmpty(reference_solution) )
    => fault \notin { "local_search: choose().unwrap()",
                      "local_search: unwrap() in a move" }

\* C28: for every instance whose first-fit assignment leaves at least one
\* vehicle route empty, partition_tour and the search driver after it complete
\* without a fatal failure, an empty route adding nothing to the cost.
C28_EmptyRouteIsHarmless ==
    ( /\ current_partition # << >>
      /\ feasible(current_partition) = "Ok"
      /\ ValuePanics(current_partition) )
    => ~(pc = "panic" /\ fault = "value: route.last().unwrap()")

----------------------------------------------------------------------------
(* Properties of find_eulerian_tour called on its own (SpecEuler) *)

\* C22: for every edge list whose multigraph is connected, has all degrees
\* even and contains the depot, in whatever order the edges are listed, the
\* sequence find_eulerian_tour returns has the depot as its first and as its
\* last element.  (Checked on the lists that name no edge twice.)
C22_EulerianTourIsClosedAtDepot ==
    ( /\ TourReturned
      /\ EulerianArguments(tree, matching)
      /\ Cardinality(Range(tree)) = Len(tree)
      /\ Range(tree) \cap matching = {} )
    => /\ eulerian_tour[1] = 0
       /\ eulerian_tour[Len(eulerian_tour)] = 0

----------------------------------------------------------------------------
(* Properties of the insertion and removal heuristics (SpecMoves) *)

\* C27: remove_sequential(client, size) removes exactly min(size, len - idx)
\* consecutive customers starting at the client's index idx in its route of
\* length len, keeps the remaining customers of that route in order, and
\* leaves every other route unchanged.
C27_RemoveSequentialCutsARun ==
    ( /\ Called("remove_sequential")
      /\ NoRepeats(call.before)
      /\ InPlan(call.before, call.args[1]) )
    => LET r     == FirstRouteOf(call.before, call.args[1])[1]
           route == call.before[r]
           idx   == Position(route, call.args[1])
           size  == call.args[2]
           n     == IF size < Len(route) - idx THEN size ELSE Len(route) - idx
       IN  /\ outcome = "Unit"
           /\ Len(plan) = Len(call.before)
           /\ Len(plan[r]) = Len(route) - n
           /\ \A i \in 1..idx : plan[r][i] = route[i]
           /\ \A i \in (idx + 1)..Len(plan[r]) : plan[r][i] = route[i + n]
           /\ \A q \in 1..Len(plan) : q # r => plan[q] = call.before[q]

\* remove_sequential was asked for two customers from the last stop of a
\* route of three and removed the one that was there
C27_Witness ==
    /\ Called("remove_sequential")
    /\ NoRepeats(call.before)
    /\ InPlan(call.before, call.args[1])
    /\ call.args[2] = 2
    /\ Len(call.before) = 2
    /\ Len(call.before[1]) = 3
    /\ call.before[1][3] = call.args[1]
    /\ plan[1] = SubSeq(call.before[1], 1, 2)
    /\ plan[2] = call.before[2]
    /\ plan[2] # << >>

\* The length of the closed walks depot, route, depot of a plan
PlanLength(routes) ==
    SumSeq([r \in 1..Len(routes) |-> WalkLength(<< 0 >> \o routes[r] \o << 0 >>)])

NearestOthers(client, size) ==
    { j \in Customers \ { client } :
        Cardinality({ k \in Customers \ { client } :
                        \/ distance(client, k) < distance(client, j)
                        \/ distance(client, k) = distance(client, j) /\ k < j })
           < size - 1 }

\* C21: on a plan that holds every customer exactly once, remove_concentric(
\* client, size) with 1 <= size completes without failure and removes exactly
\* the client and its size - 1 nearest other customers in the ranking of the
\* graph, every other customer keeping its route and relative order.
C21_RemoveConcentricTakesNearest ==
    ( /\ Called("remove_concentric")
      /\ ExactCoverage(call.before)
      /\ call.args[2] >= 1 )
    => LET gone == { call.args[1] } \cup NearestOthers(call.args[1], call.args[2])
       IN  /\ outcome = "Unit"
           /\ plan = [r \in 1..Len(call.before) |->
                         SelectSeq(call.before[r], LAMBDA c : c \notin gone)]

====
